---- MODULE Spec2Model ----
\* A model of fetch_orders.py: paginated retrieval of WooCommerce orders,
\* per-line-item cost lookup, flattening into rows, CSV export and the
\* optional spreadsheet upload.
\*
\* Numbers: every Python float / JSON number is held as an integer count of
\* hundredths (5.00 is 500).  Strings that are parsed by float() or int()
\* are sequences of one-character strings, so that parsing is computed.
EXTENDS Integers, Sequences, FiniteSets, TLC

VARIABLES
    pages,        \* the server: the batch it answers for page 1, 2, ... (empty beyond)
    csv0,         \* orders.csv as the earlier runs left it
    sheet0,       \* the worksheet as the earlier runs left it
    pc,           \* position of main
    page,         \* iter_orders: page
    orders,       \* iter_orders: orders / fetch_orders: orders
    oi,           \* fetch_orders: index of the order being processed
    li,           \* fetch_orders: index of the line item being processed
    shipping,     \* fetch_orders: shipping of the current order
    tax,          \* fetch_orders: tax of the current order
    rows,         \* fetch_orders: rows
    csv,          \* the file orders.csv
    sheet,        \* the worksheet order_data
    out,          \* the messages printed so far
    requests,     \* every HTTP GET issued so far, with its outcome
    error,        \* the exception that ended the run, "none" if none
    auth_file,    \* args.auth_file: whether --auth-file was given
    meta_in,      \* get_product_cost in isolation: the product fetched
    cost_out      \* get_product_cost in isolation: what it returned

vars == <<pages, csv0, sheet0, pc, page, orders, oi, li, shipping, tax, rows,
          csv, sheet, out, requests, error, auth_file, meta_in, cost_out>>

mainVars == <<pages, csv0, sheet0, pc, page, orders, oi, li, shipping, tax, rows,
              csv, sheet, out, requests, error, auth_file>>

\* ---------------------------------------------------------------- bounds

MaxOrders == 3     \* orders held by a small server
MaxMeta == 2       \* entries of a meta_data list

\* ------------------------------------------------------ program constants

PerPage == 100
START_DATE == "2025-01-01T00:00:00"
COST_KEY == "_wc_cog_cost"
Scale == 10 * 10   \* hundredths per unit: two decimal digits are kept

\* ------------------------------------------------------------ JSON values

Absent == [t |-> "absent"]                 \* the key is not in the dict
Null == [t |-> "null"]                     \* JSON null / Python None
Num(n) == [t |-> "num", n |-> n]           \* a number, in hundredths
Str(s) == [t |-> "str", s |-> s]           \* a string, as characters
List(v) == [t |-> "list", v |-> v]         \* a JSON array

\* dict.get(key): None when the key is absent.
DictGet(x) == IF x.t = "absent" THEN Null ELSE x

\* dict.get(key, default)
DictGetDefault(x, d) == IF x.t = "absent" THEN d ELSE x

\* ------------------------------------------------------------ conversions

DigitChars == {"0", "1", "2", "3", "4", "5", "6", "7", "8", "9"}

DigitVal(c) ==
    CASE c = "0" -> 0 [] c = "1" -> 1 [] c = "2" -> 2 [] c = "3" -> 3
      [] c = "4" -> 4 [] c = "5" -> 5 [] c = "6" -> 6 [] c = "7" -> 7
      [] c = "8" -> 8 [] c = "9" -> 9

RECURSIVE StripLeft(_)
StripLeft(s) == IF s # <<>> /\ Head(s) = " " THEN StripLeft(Tail(s)) ELSE s

RECURSIVE StripRight(_)
StripRight(s) ==
    IF s # <<>> /\ s[Len(s)] = " " THEN StripRight(SubSeq(s, 1, Len(s) - 1)) ELSE s

Strip(s) == StripRight(StripLeft(s))

AllDigits(s) == \A i \in 1..Len(s) : s[i] \in DigitChars

RECURSIVE DigitsValue(_)
DigitsValue(s) ==
    IF s = <<>> THEN 0 ELSE 10 * DigitsValue(SubSeq(s, 1, Len(s) - 1)) + DigitVal(s[Len(s)])

\* The decimal literals float() and int() accept here: blanks around, an
\* optional sign, digits with at most one point, at least one digit.
Unsigned(s) == IF s # <<>> /\ Head(s) \in {"-", "+"} THEN Tail(s) ELSE s
Sign(s) == IF s # <<>> /\ Head(s) = "-" THEN -1 ELSE 1
Points(s) == {i \in 1..Len(s) : s[i] = "."}
IntPart(s) == IF Points(s) = {} THEN s ELSE SubSeq(s, 1, (CHOOSE i \in Points(s) : TRUE) - 1)
FracPart(s) == IF Points(s) = {} THEN <<>> ELSE SubSeq(s, (CHOOSE i \in Points(s) : TRUE) + 1, Len(s))
FracValue(f) ==
    (IF Len(f) >= 1 THEN 10 * DigitVal(f[1]) ELSE 0) + (IF Len(f) >= 2 THEN DigitVal(f[2]) ELSE 0)

\* float(str): [ok, v]; ok is FALSE where Python raises ValueError.
ParseFloat(s) ==
    LET b == Unsigned(Strip(s))
        good == /\ Cardinality(Points(b)) <= 1
                /\ AllDigits(IntPart(b))
                /\ AllDigits(FracPart(b))
                /\ Len(IntPart(b)) + Len(FracPart(b)) >= 1
    IN  IF good
        THEN [ok |-> TRUE,
              v |-> Sign(Strip(s)) * (Scale * DigitsValue(IntPart(b)) + FracValue(FracPart(b)))]
        ELSE [ok |-> FALSE, v |-> 0]

\* int(str): digits only, no point.
ParseInt(s) ==
    LET b == Unsigned(Strip(s))
    IN  IF b # <<>> /\ AllDigits(b)
        THEN [ok |-> TRUE, v |-> Sign(Strip(s)) * DigitsValue(b)]
        ELSE [ok |-> FALSE, v |-> 0]

\* float(x) of a JSON value: [err, v] with err "none", "ValueError" or
\* "TypeError" (None and lists are not convertible).
Float(x) ==
    CASE x.t = "num" -> [err |-> "none", v |-> x.n]
      [] x.t = "str" -> IF ParseFloat(x.s).ok
                        THEN [err |-> "none", v |-> ParseFloat(x.s).v]
                        ELSE [err |-> "ValueError", v |-> 0]
      [] OTHER -> [err |-> "TypeError", v |-> 0]

\* int(x) of a JSON value: a number truncates toward zero.
Int_(x) ==
    CASE x.t = "num" -> [err |-> "none",
                         v |-> IF x.n >= 0 THEN x.n \div Scale ELSE -((-x.n) \div Scale)]
      [] x.t = "str" -> IF ParseInt(x.s).ok
                        THEN [err |-> "none", v |-> ParseInt(x.s).v]
                        ELSE [err |-> "ValueError", v |-> 0]
      [] OTHER -> [err |-> "TypeError", v |-> 0]

\* ---------------------------------------------------------- the Cost Resolver

\* The loop of get_product_cost over meta_data: the first entry under the
\* cost key decides; float() failing on its value gives None.
RECURSIVE ScanMeta(_)
ScanMeta(meta_data) ==
    IF meta_data = <<>> THEN Null
    ELSE IF Head(meta_data).key = COST_KEY
         THEN LET f == Float(DictGet(Head(meta_data).value))
              IN  IF f.err = "none" THEN Num(f.v) ELSE Null
         ELSE ScanMeta(Tail(meta_data))

\* A wrong resolver: an unparsable value under the cost key is skipped and
\* the scan goes on to later entries.
RECURSIVE ScanMetaSkipping(_)
ScanMetaSkipping(meta_data) ==
    IF meta_data = <<>> THEN Null
    ELSE IF /\ Head(meta_data).key = COST_KEY
            /\ Float(DictGet(Head(meta_data).value)).err = "none"
         THEN Num(Float(DictGet(Head(meta_data).value)).v)
         ELSE ScanMetaSkipping(Tail(meta_data))

GetProductCostSkipping(product) ==
    ScanMetaSkipping(DictGetDefault(product.meta_data, List(<<>>)).v)

\* get_product_cost, given the fetched product: None or a number.
GetProductCost(product) == ScanMeta(DictGetDefault(product.meta_data, List(<<>>)).v)

\* "get_product_cost(product_id) or 0.0": None and 0.0 are both falsy.
CostOrZero(c) == IF c.t = "num" /\ c.n # 0 THEN c.n ELSE 0

\* ------------------------------------------------------------- the server

Id(n) == [t |-> "int", n |-> n]            \* a JSON integer used as an identifier

Meta(k, v) == [key |-> k, value |-> v]

\* The products of the store: 100 carries a cost of 5.00, 200 carries no cost
\* entry, 300 carries a cost that is not a number.  Any other id is unknown.
Catalog ==
    (100 :> [meta_data |-> List(<<Meta("_sku_note", Str(<<"x">>)),
                                  Meta(COST_KEY, Str(<<"5", ".", "0", "0">>))>>)])
    @@ (200 :> [meta_data |-> List(<<Meta("_sku_note", Str(<<"5">>))>>)])
    @@ (300 :> [meta_data |-> List(<<Meta(COST_KEY, Str(<<"a", "b", "c">>))>>)])

OrdersRequest(p, after) ==
    [endpoint |-> "/orders", id |-> Null,
     params |-> [per_page |-> PerPage, page |-> p, after |-> after]]

\* f'/products/{product_id}': an absent reference gives "/products/None".
ProductRequest(product_id) == [endpoint |-> "/products", id |-> product_id, params |-> Null]

PageAt(pgs, p) == IF p \in 1..Len(pgs) THEN pgs[p] ELSE <<>>

\* What the store answers when nothing goes wrong on the way.
ServerAnswer(pgs, req) ==
    IF req.endpoint = "/orders"
    THEN [status |-> 200, body |-> List(PageAt(pgs, req.params.page))]
    ELSE IF req.id.t = "int" /\ req.id.n \in DOMAIN Catalog
         THEN [status |-> 200, body |-> Catalog[req.id.n]]
         ELSE [status |-> 404, body |-> Null]

\* Any request may also meet a server error.
Responses(pgs, req) == {ServerAnswer(pgs, req), [status |-> 500, body |-> Null]}

\* A wrong client: the status is not looked at and an error body reads as empty.
GetUnchecked(resp) ==
    [raised |-> FALSE,
     body |-> IF resp.status >= 400 THEN List(<<>>) ELSE resp.body]

\* WooCommerceClient.get: raise_for_status raises on 4xx/5xx, else the body.
Get(resp) == [raised |-> resp.status >= 400, body |-> resp.body]

\* ------------------------------------------------------------ the inputs

LineItem(sku, quantity, total, product_id) ==
    [sku |-> sku, quantity |-> quantity, total |-> total, product_id |-> product_id]

Charge(total) == [total |-> total]

\* The order of the end-to-end scenario: two shipping lines, one tax line,
\* two line items.
Order42 ==
    [id |-> 42, date_created |-> "2025-03-01T10:00:00", customer_id |-> 7,
     status |-> "completed",
     shipping_lines |-> List(<<Charge(Num(750)), Charge(Num(500))>>),
     tax_lines |-> List(<<Charge(Num(300))>>),
     line_items |-> List(<<
         LineItem("SKU-A", Num(200), Str(<<"4", "0", ".", "0", "0">>), Id(100)),
         LineItem("SKU-B", Num(100), Str(<<"1", "5", ".", "0", "0">>), Id(200))>>)]

\* No line_items and no shipping_lines key; a tax line without 'total'.
Order43 ==
    [id |-> 43, date_created |-> "2025-03-02T09:00:00", customer_id |-> 0,
     status |-> "cancelled",
     shipping_lines |-> Absent,
     tax_lines |-> List(<<Charge(Absent), Charge(Num(125))>>),
     line_items |-> Absent]

\* A cost that does not parse, missing quantity and total, and product 100 again.
Order44 ==
    [id |-> 44, date_created |-> "2025-03-03T08:00:00", customer_id |-> 7,
     status |-> "processing",
     shipping_lines |-> List(<<Charge(Num(499))>>),
     tax_lines |-> Absent,
     line_items |-> List(<<
         LineItem("SKU-C", Absent, Absent, Id(300)),
         LineItem("SKU-A", Str(<<"3">>), Num(6000), Id(100))>>)]

\* The second line item has no product reference.
Order45 ==
    [id |-> 45, date_created |-> "2025-03-04T07:00:00", customer_id |-> 9,
     status |-> "completed",
     shipping_lines |-> List(<<>>),
     tax_lines |-> List(<<Charge(Num(80))>>),
     line_items |-> List(<<
         LineItem("SKU-A", Num(100), Num(2000), Id(100)),
         LineItem("SKU-D", Num(100), Num(1000), Absent)>>)]

\* A shipping total given as a string, as the store's API sends it.
Order46 ==
    [id |-> 46, date_created |-> "2025-03-05T06:00:00", customer_id |-> 9,
     status |-> "completed",
     shipping_lines |-> List(<<Charge(Str(<<"1", "2", ".", "5", "0">>))>>),
     tax_lines |-> List(<<>>),
     line_items |-> List(<<LineItem("SKU-B", Num(100), Num(1500), Id(200))>>)]

Templates == {Order42, Order43, Order44, Order45, Order46}

\* The i-th order of a large store; every hundredth one has a line item.
BigOrder(i) ==
    [id |-> 1000 + i, date_created |-> "2025-04-01T00:00:00", customer_id |-> 0,
     status |-> "completed",
     shipping_lines |-> List(<<Charge(Num(i))>>),
     tax_lines |-> List(<<>>),
     line_items |-> IF i % PerPage = 0
                    THEN List(<<LineItem("SKU-A", Num(100), Num(1000), Id(100))>>)
                    ELSE List(<<>>)]

BigCollection(n) == [i \in 1..n |-> BigOrder(i)]

\* Totals of matching orders that need several pages of 100.
BigTotals == {PerPage, 2 * PerPage + 50, 3 * PerPage}

Min(a, b) == IF a <= b THEN a ELSE b

\* A store cutting a collection into pages of `size`.
RECURSIVE Paginate(_, _)
Paginate(coll, size) ==
    IF coll = <<>> THEN <<>>
    ELSE <<SubSeq(coll, 1, Min(size, Len(coll)))>>
         \o Paginate(SubSeq(coll, Min(size, Len(coll)) + 1, Len(coll)), size)

Collections == UNION {[1..n -> Templates] : n \in 0..MaxOrders}

\* Page sizes the store may serve: a store may cap a page below per_page.
ServerCaps == {1, 2, PerPage}

\* Stores whose pages are uneven, or that answer an empty page early.
IrregularPages ==
    {<< <<Order42>>, <<>>, <<Order44>> >>,
     << <<Order43, Order42>>, <<Order44>>, <<Order43, Order43>> >>}

Servers ==
    {Paginate(c, Min(PerPage, cap)) : c \in Collections, cap \in ServerCaps}
    \cup {Paginate(BigCollection(n), PerPage) : n \in BigTotals}
    \cup IrregularPages

\* ------------------------------------------------------------- the files

\* The keys of a row, in the order fetch_orders builds it.
Fields ==
    <<"order_id", "order_date", "customer_id", "line_item_sku", "line_item_quantity",
      "line_item_total", "product_cost", "line_COGS", "order_status", "shipping_paid",
      "taxes_paid">>

NoFile == [exists |-> FALSE, header |-> <<>>, records |-> <<>>]

\* What write_csv leaves: a header line and one line per row.
CsvOf(rs) == [exists |-> TRUE, header |-> Fields, records |-> rs]

\* A row of an earlier run.
StaleRow ==
    [order_id |-> 7, order_date |-> "2025-02-01T00:00:00", customer_id |-> 1,
     line_item_sku |-> "SKU-OLD", line_item_quantity |-> 1, line_item_total |-> 900,
     product_cost |-> 400, line_COGS |-> 400, order_status |-> "completed",
     shipping_paid |-> 0, taxes_paid |-> 0]

CsvStates == {NoFile, CsvOf(<<StaleRow>>)}

\* The worksheet: its lines, as upload_to_sheet sends them.
SheetOf(file) == [header |-> file.header, records |-> file.records]
ClearedSheet == [header |-> <<>>, records |-> <<>>]
StaleSheet == SheetOf(CsvOf(<<StaleRow>>))

\* ---------------------------------------------------------- the pipeline

\* "if not batch: break"
BatchEndsWhenShort(batch) == Len(batch) < PerPage
BatchEnds(batch) == batch = <<>>

\* "orders.extend(batch)"
ExtendFront(os, batch) == batch \o os
Extend(os, batch) == os \o batch

\* "page += 1"
NextPageSkipping(p) == p + 2
NextPage(p) == p + 1

\* sum(x.get('total', 0) for x in lines): [err, v]; adding a string or None
\* to a number raises TypeError.
RECURSIVE SumTotals(_)
SumTotals(lines) ==
    IF lines = <<>> THEN [err |-> "none", v |-> 0]
    ELSE LET t == DictGetDefault(Head(lines).total, Num(0))
             rest == SumTotals(Tail(lines))
         IN  IF t.t # "num" \/ rest.err # "none"
             THEN [err |-> "TypeError", v |-> 0]
             ELSE [err |-> "none", v |-> t.n + rest.v]

\* A wrong aggregate: only the first charge line is counted.
OrderChargeFirstOnly(field) ==
    LET lines == DictGetDefault(field, List(<<>>)).v
    IN  IF lines = <<>> THEN SumTotals(lines) ELSE SumTotals(<<Head(lines)>>)

\* order.get('shipping_lines', []) / order.get('tax_lines', []), summed.
OrderCharge(field) == SumTotals(DictGetDefault(field, List(<<>>)).v)

\* order.get('line_items', [])
LineItems(order) == DictGetDefault(order.line_items, List(<<>>)).v

\* "line_cogs = product_cost * quantity", costs in hundredths.
LineCogsCostOnly(product_cost, quantity) == product_cost
LineCogs(product_cost, quantity) == product_cost * quantity

\* The dict appended to rows.
MakeRow(order, item, quantity, total, product_cost, ship, tx) ==
    [order_id |-> order.id,
     order_date |-> order.date_created,
     customer_id |-> order.customer_id,
     line_item_sku |-> item.sku,
     line_item_quantity |-> quantity,
     line_item_total |-> total,
     product_cost |-> product_cost,
     line_COGS |-> LineCogs(product_cost, quantity),
     order_status |-> order.status,
     shipping_paid |-> ship,
     taxes_paid |-> tx]

\* "rows.append(...)"
AppendRowFront(rs, r) == <<r>> \o rs
AppendRow(rs, r) == Append(rs, r)

Logged(req, resp) == [req |-> req, status |-> resp.status]

\* An uncaught exception ends main.
Abort(e) == pc' = "aborted" /\ error' = e

\* ------------------------------------------------------------------ Init

Unset == [t |-> "unset"]

CostIdle == meta_in = [meta_data |-> Absent] /\ cost_out = Unset

MainInit(servers) ==
    /\ pages \in servers
    /\ csv0 \in CsvStates
    /\ sheet0 = StaleSheet
    /\ auth_file \in BOOLEAN
    /\ pc = "iter_orders"
    /\ page = 1
    /\ orders = <<>>
    /\ oi = 1
    /\ li = 0
    /\ shipping = 0
    /\ tax = 0
    /\ rows = <<>>
    /\ csv = csv0
    /\ sheet = sheet0
    /\ out = <<>>
    /\ requests = <<>>
    /\ error = "none"

Init == MainInit(Servers) /\ CostIdle

\* --------------------------------------------------------------- actions

\* One turn of the loop of iter_orders: GET /orders for the current page.
IterOrdersPage ==
    /\ pc = "iter_orders"
    /\ LET req == OrdersRequest(page, START_DATE)
       IN  \E resp \in Responses(pages, req) :
             LET r == Get(resp)
             IN  /\ requests' = Append(requests, Logged(req, resp))
                 /\ IF r.raised
                    THEN /\ Abort("HTTPError")
                         /\ UNCHANGED <<page, orders>>
                    ELSE IF BatchEnds(r.body.v)
                    THEN /\ pc' = "fetch_orders"
                         /\ UNCHANGED <<page, orders, error>>
                    ELSE /\ orders' = Extend(orders, r.body.v)
                         /\ page' = NextPage(page)
                         /\ UNCHANGED <<pc, error>>
    /\ UNCHANGED <<pages, csv0, sheet0, auth_file, oi, li, shipping, tax, rows, csv,
                   sheet, out, meta_in, cost_out>>

\* fetch_orders, the head of the loop over orders: the order's shipping and
\* tax are summed, then its line items are entered (or skipped when none).
BeginOrder ==
    /\ pc = "fetch_orders"
    /\ li = 0
    /\ oi <= Len(orders)
    /\ LET order == orders[oi]
           sh == OrderCharge(order.shipping_lines)
           tx == OrderCharge(order.tax_lines)
       IN  IF sh.err # "none" \/ tx.err # "none"
           THEN /\ Abort("TypeError")
                /\ UNCHANGED <<oi, li, shipping, tax>>
           ELSE /\ shipping' = sh.v
                /\ tax' = tx.v
                /\ IF LineItems(order) = <<>>
                   THEN oi' = oi + 1 /\ li' = 0
                   ELSE oi' = oi /\ li' = 1
                /\ UNCHANGED <<pc, error>>
    /\ UNCHANGED <<pages, csv0, sheet0, auth_file, page, orders, rows, csv, sheet, out,
                   requests, meta_in, cost_out>>

\* fetch_orders, one line item, once the product's GET has answered r: the
\* exception goes up, or the row is appended and the loops move on.
AfterProduct(order, item, q, t, r) ==
    IF r.raised
    THEN /\ Abort("HTTPError")
         /\ UNCHANGED <<oi, li, rows>>
    ELSE /\ rows' = AppendRow(rows,
                MakeRow(order, item, q.v, t.v, CostOrZero(GetProductCost(r.body)),
                        shipping, tax))
         /\ IF li < Len(LineItems(order))
            THEN oi' = oi /\ li' = li + 1
            ELSE oi' = oi + 1 /\ li' = 0
         /\ UNCHANGED <<pc, error>>

\* A wrong pipeline: a product already fetched in this run is served from a
\* cache instead of being fetched again.
ProcessLineItemCached ==
    /\ pc = "fetch_orders"
    /\ li >= 1
    /\ LET order == orders[oi]
           item == LineItems(order)[li]
           q == Int_(DictGetDefault(item.quantity, Num(0)))
           t == Float(DictGetDefault(item.total, Num(0)))
           req == ProductRequest(DictGet(item.product_id))
       IN  IF q.err # "none" \/ t.err # "none"
           THEN /\ Abort(IF q.err # "none" THEN q.err ELSE t.err)
                /\ UNCHANGED <<oi, li, rows, requests>>
           ELSE IF \E i \in 1..Len(requests) : requests[i] = Logged(req, [status |-> 200])
           THEN /\ requests' = requests
                /\ AfterProduct(order, item, q, t, Get(ServerAnswer(pages, req)))
           ELSE \E resp \in Responses(pages, req) :
                  /\ requests' = Append(requests, Logged(req, resp))
                  /\ AfterProduct(order, item, q, t, Get(resp))
    /\ UNCHANGED <<pages, csv0, sheet0, auth_file, page, orders, shipping, tax, csv,
                   sheet, out, meta_in, cost_out>>

\* fetch_orders, one line item: quantity and total are converted, the
\* product is fetched for its cost, and the row is appended.
ProcessLineItem ==
    /\ pc = "fetch_orders"
    /\ li >= 1
    /\ LET order == orders[oi]
           item == LineItems(order)[li]
           q == Int_(DictGetDefault(item.quantity, Num(0)))
           t == Float(DictGetDefault(item.total, Num(0)))
           req == ProductRequest(DictGet(item.product_id))
       IN  IF q.err # "none" \/ t.err # "none"
           THEN /\ Abort(IF q.err # "none" THEN q.err ELSE t.err)
                /\ UNCHANGED <<oi, li, rows, requests>>
           ELSE \E resp \in Responses(pages, req) :
                  /\ requests' = Append(requests, Logged(req, resp))
                  /\ AfterProduct(order, item, q, t, Get(resp))
    /\ UNCHANGED <<pages, csv0, sheet0, auth_file, page, orders, shipping, tax, csv,
                   sheet, out, meta_in, cost_out>>

\* fetch_orders returns and main calls write_csv(rows, ORDERS_CSV); with no
\* rows the file is not touched.
WriteCsv ==
    /\ pc = "fetch_orders"
    /\ li = 0
    /\ oi > Len(orders)
    /\ IF rows = <<>>
       THEN /\ out' = Append(out, "No orders found.")
            /\ csv' = csv
       ELSE /\ csv' = CsvOf(rows)
            /\ out' = Append(out, "Wrote rows")
    /\ pc' = IF auth_file THEN "upload_to_sheet" ELSE "done"
    /\ UNCHANGED <<pages, csv0, sheet0, auth_file, page, orders, oi, li, shipping, tax,
                   rows, sheet, requests, error, meta_in, cost_out>>

\* upload_to_sheet: without gspread a message only; else the worksheet is
\* cleared, orders.csv is read and its lines are written to the worksheet.
UploadToSheet ==
    /\ pc = "upload_to_sheet"
    /\ \E gspread \in BOOLEAN :
         IF ~gspread
         THEN /\ out' = Append(out, "gspread not available. Cannot upload.")
              /\ pc' = "done"
              /\ UNCHANGED <<sheet, error>>
         ELSE IF ~csv.exists
         THEN /\ sheet' = ClearedSheet
              /\ Abort("FileNotFoundError")
              /\ out' = out
         ELSE /\ sheet' = SheetOf(csv)
              /\ out' = Append(out, "Uploaded data")
              /\ pc' = "done"
              /\ error' = error
    /\ UNCHANGED <<pages, csv0, sheet0, auth_file, page, orders, oi, li, shipping, tax,
                   rows, csv, requests, meta_in, cost_out>>

Next == IterOrdersPage \/ BeginOrder \/ ProcessLineItem \/ WriteCsv \/ UploadToSheet

Spec == Init /\ [][Next]_vars
\* ------------------------------------------ get_product_cost in isolation

MetaKeys == {COST_KEY, "_other"}

MetaValues ==
    {Str(<<"5", ".", "0", "0">>), Str(<<" ", "2", ".", "5">>), Str(<<"0">>),
     Str(<<"a", "b", "c">>), Str(<<>>), Num(750), Null, Absent}

MetaEntries == {Meta(k, v) : k \in MetaKeys, v \in MetaValues}

MetaLists == UNION {[1..n -> MetaEntries] : n \in 0..MaxMeta}

Products == {[meta_data |-> Absent]} \cup {[meta_data |-> List(l)] : l \in MetaLists}

InitCost ==
    /\ MainInit({<<>>})
    /\ csv0 = NoFile
    /\ auth_file = FALSE
    /\ meta_in \in Products
    /\ cost_out = Unset

\* get_product_cost runs on the fetched product.
ResolveCost ==
    /\ cost_out = Unset
    /\ cost_out' = GetProductCost(meta_in)
    /\ UNCHANGED <<meta_in>>
    /\ UNCHANGED mainVars

NextCost == ResolveCost

SpecCost == InitCost /\ [][NextCost]_vars
\* ================================================================ claims

\* ---- what the claims speak of

\* The line items of a sequence of orders, order by order and item by item;
\* each with the position of its order.
ItemsAt(os, k) ==
    [j \in 1..Len(LineItems(os[k])) |-> [at |-> k, order |-> os[k], item |-> LineItems(os[k])[j]]]

RECURSIVE FlatRange(_, _, _)
FlatRange(os, lo, hi) ==
    IF lo > hi THEN <<>>
    ELSE IF lo = hi THEN ItemsAt(os, lo)
    ELSE FlatRange(os, lo, (lo + hi) \div 2) \o FlatRange(os, (lo + hi) \div 2 + 1, hi)

Flat(os) == FlatRange(os, 1, Len(os))

IsPrefix(a, b) == Len(a) <= Len(b) /\ \A i \in 1..Len(a) : a[i] = b[i]

RowKey(r) == <<r.order_id, r.line_item_sku>>
FlatKey(f) == <<f.order.id, f.item.sku>>

IsOrdersRequest(e) == e.req.endpoint = "/orders"
IsProductRequest(e) == e.req.endpoint = "/products"
OrdersCalls == SelectSeq(requests, IsOrdersRequest)
ProductCalls == SelectSeq(requests, IsProductRequest)

NoHttpFailure == \A i \in 1..Len(requests) : requests[i].status < 400

\* iter_orders has returned its list.
IterReturned == pc # "iter_orders" /\ \A i \in 1..Len(OrdersCalls) : OrdersCalls[i].status < 400

\* fetch_orders has returned its rows (write_csv has been called).
FetchReturned ==
    \/ pc \in {"upload_to_sheet", "done"}
    \/ pc = "aborted" /\ error = "FileNotFoundError"

\* The sum of the 'total' entries of a charge collection, an entry without
\* 'total' and an absent collection counting as 0.
TotalAt(lines, i) == IF lines[i].total.t = "num" THEN lines[i].total.n ELSE 0
RECURSIVE SumUpTo(_, _)
SumUpTo(lines, n) == IF n = 0 THEN 0 ELSE SumUpTo(lines, n - 1) + TotalAt(lines, n)
ChargeTotal(field) == IF field.t = "list" THEN SumUpTo(field.v, Len(field.v)) ELSE 0

\* The number of pages the server answers non-empty before its first empty one.
RECURSIVE LeadingNonEmpty(_)
LeadingNonEmpty(pgs) ==
    IF pgs = <<>> \/ Head(pgs) = <<>> THEN 0 ELSE 1 + LeadingNonEmpty(Tail(pgs))

RECURSIVE ConcatPages(_, _)
ConcatPages(pgs, n) == IF n = 0 THEN <<>> ELSE ConcatPages(pgs, n - 1) \o pgs[n]

\* The cost entry that decides: the first one under the cost key.
CostEntries(product) ==
    IF product.meta_data.t = "list"
    THEN {i \in 1..Len(product.meta_data.v) : product.meta_data.v[i].key = COST_KEY}
    ELSE {}
Numeric(entry) == Float(DictGet(entry.value)).err = "none"
Parsed(entry) == Num(Float(DictGet(entry.value)).v)
FirstCost(product) ==
    LET i == CHOOSE i \in CostEntries(product) : \A j \in CostEntries(product) : i <= j
    IN  product.meta_data.v[i]
ResolvedCost(product) ==
    IF CostEntries(product) = {} THEN Null
    ELSE IF Numeric(FirstCost(product)) THEN Parsed(FirstCost(product)) ELSE Null

\* The unit cost a line item's product resolves to in this store, 0 if unresolved.
ExpectedCost(item) ==
    LET c == ResolvedCost(Catalog[item.product_id.n]) IN IF c.t = "num" THEN c.n ELSE 0

\* ---- C1
\* C1: the rows built by fetch_orders are at every moment a prefix of the
\* order-preserving flattening of the orders returned by iter_orders (order by
\* order, line item by line item), and when fetch_orders returns they are the
\* whole flattening: one row per line item, none for an order without line items.
C1_RowsAreFlattening ==
    LET flat == Flat(orders)
    IN  /\ IterReturned => IsPrefix([k \in 1..Len(rows) |-> RowKey(rows[k])],
                                    [k \in 1..Len(flat) |-> FlatKey(flat[k])])
        /\ FetchReturned => Len(rows) = Len(flat)
        /\ FetchReturned =>
             \A k \in 1..Len(orders) :
                Cardinality({i \in 1..Len(rows) : flat[i].at = k}) = Len(LineItems(orders[k]))

C1_Witness ==
    /\ FetchReturned
    /\ Len(orders) = 3
    /\ LineItems(orders[1]) = <<>>
    /\ Len(LineItems(orders[2])) = 2
    /\ orders[3] # orders[2]
    /\ Len(rows) = 4

\* ---- C2
\* C2: every row carries, as shipping_paid and taxes_paid, the sum of the
\* 'total' entries of its order's shipping_lines and tax_lines (missing entry
\* or collection counting 0); hence rows of one order carry identical values.
C2_OrderLevelCharges ==
    LET flat == Flat(orders)
    IN  IterReturned =>
          /\ Len(rows) <= Len(flat)
          /\ \A k \in 1..Len(rows) :
                /\ rows[k].shipping_paid = ChargeTotal(flat[k].order.shipping_lines)
                /\ rows[k].taxes_paid = ChargeTotal(flat[k].order.tax_lines)
          /\ \A j, k \in 1..Len(rows) :
                flat[j].at = flat[k].at =>
                   /\ rows[j].shipping_paid = rows[k].shipping_paid
                   /\ rows[j].taxes_paid = rows[k].taxes_paid

C2_Witness ==
    /\ FetchReturned
    /\ \E j, k \in 1..Len(rows) :
          /\ j # k
          /\ Flat(orders)[j].at = Flat(orders)[k].at
          /\ rows[j].shipping_paid = 1250
          /\ rows[k].shipping_paid = 1250
          /\ rows[k].taxes_paid = 300
    /\ \E k \in 1..Len(rows) : rows[k].shipping_paid = 499 /\ rows[k].taxes_paid = 0

\* ---- C3
\* C3: a failed HTTP request is the last request of the run (no retry, no
\* request after it), the run is aborted by it, and neither orders.csv nor
\* the worksheet has been written nor a message printed; orders.csv is
\* written only when every request of the run has succeeded, the orders
\* pages up to the empty one and one product fetch per line item.
Written == csv # csv0 \/ \E i \in 1..Len(out) : out[i] = "Wrote rows"

C3_FailureWritesNothing ==
    /\ \A i \in 1..Len(requests) :
          requests[i].status >= 400 =>
             /\ i = Len(requests)
             /\ pc = "aborted"
             /\ error = "HTTPError"
             /\ csv = csv0
             /\ sheet = sheet0
             /\ out = <<>>
    /\ Written =>
          /\ NoHttpFailure
          /\ OrdersCalls # <<>>
          /\ PageAt(pages, OrdersCalls[Len(OrdersCalls)].req.params.page) = <<>>
          /\ Len(ProductCalls) = Len(Flat(orders))

C3_Witness ==
    /\ pc = "aborted"
    /\ error = "HTTPError"
    /\ Len(rows) >= 2
    /\ csv0.exists
    /\ auth_file
    /\ requests[Len(requests)].status = 500
    /\ IsProductRequest(requests[Len(requests)])

\* ---- C4
\* A store that cuts its orders into pages of per_page, the last one short.
RegularShort(pgs) ==
    /\ pgs # <<>>
    /\ \A i \in 1..(Len(pgs) - 1) : Len(pgs[i]) = PerPage
    /\ Len(pgs[Len(pgs)]) \in 1..(PerPage - 1)

\* The same with a total that is a multiple of per_page.
RegularFull(pgs) == \A i \in 1..Len(pgs) : Len(pgs[i]) = PerPage

\* C4 as stated: when the last non-empty page is short the number of /orders
\* calls equals the number of non-empty pages (3 for 250 orders); only for a
\* multiple of the page size is there one call more.
C4_AsStated ==
    IterReturned =>
      /\ RegularShort(pages) => Len(OrdersCalls) = Len(pages)
      /\ RegularFull(pages) => Len(OrdersCalls) = Len(pages) + 1

\* C4 amended: iter_orders always makes one /orders call per non-empty page
\* plus the call that is answered empty, whether or not the last non-empty
\* page is short (4 calls for 250 orders as for 300).
C4_OneCallMoreThanPages ==
    IterReturned => Len(OrdersCalls) = LeadingNonEmpty(pages) + 1

C4_Witness ==
    /\ IterReturned
    /\ RegularShort(pages)
    /\ Len(pages) = 3
    /\ Len(pages[3]) = 50
    /\ Len(OrdersCalls) = 4

\* ---- C5
\* C5: the /orders requests are for pages 1, 2, 3, ... in this order, each
\* with per_page 100 and the same 'after'; when iter_orders returns, the last
\* request was for the first page k the server answers empty and the result
\* is the concatenation of pages 1..k-1.
C5_PagesInSequence ==
    /\ \A i \in 1..Len(OrdersCalls) :
          OrdersCalls[i].req.params = [per_page |-> 100, page |-> i, after |-> START_DATE]
    /\ IterReturned =>
          /\ Len(OrdersCalls) = LeadingNonEmpty(pages) + 1
          /\ orders = ConcatPages(pages, LeadingNonEmpty(pages))

C5_Witness ==
    /\ IterReturned
    /\ Len(pages) = 3
    /\ Len(pages[1]) = 2
    /\ Len(pages[2]) = 1
    /\ Len(pages[3]) = 2
    /\ Len(orders) = 5
    /\ Len(OrdersCalls) = 4

C5_WitnessEarlyEmpty ==
    /\ IterReturned
    /\ Len(pages) = 3
    /\ pages[2] = <<>>
    /\ Len(orders) = 1

\* ---- C6
\* C6 as stated: whenever meta_data holds an entry under the cost key whose
\* value is a valid numeric string, get_product_cost returns such an entry's
\* parsed number (so None is returned only when there is none), also with
\* several entries under the key; without the key it returns None.
C6_AsStated ==
    cost_out # Unset =>
      LET strings == {i \in CostEntries(meta_in) :
                         /\ meta_in.meta_data.v[i].value.t = "str"
                         /\ Numeric(meta_in.meta_data.v[i])}
      IN  /\ strings # {} => \E i \in strings : cost_out = Parsed(meta_in.meta_data.v[i])
          /\ CostEntries(meta_in) = {} => cost_out = Null

\* C6 amended: the first entry under the cost key decides: get_product_cost
\* returns its parsed number when its value is numeric, and None when no
\* entry has the key or that first entry's value is not numeric; later
\* entries under the key are not looked at.  No value raises.
C6_FirstCostEntryDecides ==
    cost_out # Unset =>
      /\ cost_out = ResolvedCost(meta_in)
      /\ cost_out.t \in {"null", "num"}

C6_Witness ==
    /\ cost_out = Null
    /\ Cardinality(CostEntries(meta_in)) = 2
    /\ ~Numeric(meta_in.meta_data.v[1])
    /\ Numeric(meta_in.meta_data.v[2])

\* ---- C7
\* C7 as stated: a line item without product reference gets its row with
\* cost 0 and does not make the run fail: the caller guards it, so the store
\* is never asked for the product of an absent reference and no run is
\* aborted by the store not finding it.
C7_AbsentReferenceGuarded ==
    \A i \in 1..Len(requests) :
       IsProductRequest(requests[i]) /\ requests[i].req.id = Null =>
          requests[i].status # 404 /\ pc # "aborted"

\* ---- C8
\* C8 as stated: a run whose pipeline gave zero rows ends without failure,
\* with the 'no data' message, and with orders.csv empty or absent.
ZeroRowsRunEnded ==
    /\ pc \in {"done", "aborted"}
    /\ FetchReturned
    /\ rows = <<>>

C8_ZeroRowsLeaveNoArtifact ==
    ZeroRowsRunEnded =>
      /\ error = "none"
      /\ \E i \in 1..Len(out) : out[i] = "No orders found."
      /\ ~csv.exists \/ csv.records = <<>>

\* ---- C9
\* C9: every row has line_COGS = product_cost * line_item_quantity, where
\* product_cost is the cost its product resolves to, 0 when unresolved.
C9_LineCogs ==
    LET flat == Flat(orders)
    IN  IterReturned =>
          /\ Len(rows) <= Len(flat)
          /\ \A k \in 1..Len(rows) :
                /\ rows[k].line_COGS = rows[k].product_cost * rows[k].line_item_quantity
                /\ rows[k].product_cost = ExpectedCost(flat[k].item)

C9_Witness ==
    /\ FetchReturned
    /\ \E k \in 1..Len(rows) :
          rows[k].product_cost = 500 /\ rows[k].line_item_quantity = 3 /\ rows[k].line_COGS = 1500
    /\ \E k \in 1..Len(rows) :
          /\ Flat(orders)[k].item.product_id = Id(300)
          /\ rows[k].product_cost = 0
          /\ rows[k].line_COGS = 0

\* ---- C10
\* C10: the product fetches are, in order, the product references of the
\* line items in flattening order, one fetch per line item (a prefix of them
\* while the run is under way, all of them when fetch_orders returns), and no
\* /orders fetch comes after a product fetch.
C10_OneFetchPerLineItem ==
    /\ LET flat == Flat(orders)
           calls == ProductCalls
       IN  /\ IterReturned =>
                 IsPrefix([k \in 1..Len(calls) |-> calls[k].req.id],
                          [k \in 1..Len(flat) |-> DictGet(flat[k].item.product_id)])
           /\ FetchReturned => Len(calls) = Len(flat)
    /\ \A i, j \in 1..Len(requests) :
          i < j /\ IsProductRequest(requests[i]) => IsProductRequest(requests[j])

C10_Witness ==
    /\ FetchReturned
    /\ Len(OrdersCalls) >= 3
    /\ Cardinality({k \in 1..Len(ProductCalls) : ProductCalls[k].req.id = Id(100)}) = 3

====
